---- MODULE Spec2Model ----
(***************************************************************************)
(* Content lifecycle, provider validation and campaign orchestration of    *)
(* the marketing-campaign-automation repository.                           *)
(*                                                                         *)
(* The content table, the user configuration file and the validation       *)
(* cache are the persisted / shared state; every HTTP handler is a         *)
(* process whose awaits are the points where other handlers interleave.    *)
(***************************************************************************)
EXTENDS Integers, Sequences, FiniteSets, TLC

----------------------------------------------------------------------------
(* Bounds of the model *)

\* rows the content table holds when the handlers start
MaxInitRows == 1
\* rows the content table may grow to
MaxContentId == 3
\* CURRENT_TIMESTAMP takes the values 1..MaxTime
MaxTime == 2
\* concurrent publish requests in flight
MaxPublishReqs == 1
\* Date.now() advances at most this many half cache intervals
MaxClockTicks == 3
\* rows the topics table may grow to
MaxTopics == 2
\* items one aggregation fetches from the feeds and the trends API
MaxBatch == 2
\* concurrent GET /api/publishing/validate requests in flight
MaxValidateReqs == 2
\* concurrent aggregateTrends calls in flight
MaxSavers == 2
\* publish requests in flight where requests for one row overlap
MaxConcurrentPublish == 2

----------------------------------------------------------------------------
(* Value domains *)

NULL == 0

Platforms == {"wechat", "xhs", "googledocs"}

\* status column of the content table: the values some statement writes
Statuses == {"draft", "pending_approval", "approved", "published", "rejected"}

\* the values PATCH /:id/status accepts
PatchStatuses == {"draft", "approved", "published", "rejected"}

\* ids a request may carry: every initial row, and one id no row has
RequestIds == 1..(MaxInitRows + 1)

PublishReqs == 1..MaxPublishReqs

\* A configuration field is either empty (falsy) or set.
FieldValues == {"", "set"}

\* googleDocsCredentials: empty, service-account JSON, an API key (AIza...),
\* or text of no recognised format.
CredentialValues == {"", "{json}", "AIza", "other"}

UserConfigs ==
  [wechatAppId : FieldValues, wechatAppSecret : FieldValues,
   xhsCookie : FieldValues, googleDocsCredentials : CredentialValues,
   googleDocsFolderId : FieldValues]

\* loadUserConfig() returns null when user-config.json does not exist; every
\* read is userConfig?.field, which is then undefined (falsy) like "".
EmptyConfig ==
  [wechatAppId |-> "", wechatAppSecret |-> "", xhsCookie |-> "",
   googleDocsCredentials |-> "", googleDocsFolderId |-> ""]

Envs ==
  [WECHAT_APP_ID : FieldValues, WECHAT_APP_SECRET : FieldValues,
   XHS_COOKIE : FieldValues, GOOGLE_DOCS_CREDENTIALS : FieldValues]

\* Configurations of the Next.js application that differ in which providers
\* the registry finds configured: one field per provider varies.
CampaignConfigs ==
  {cfg \in UserConfigs :
     /\ cfg.wechatAppSecret = "set"
     /\ cfg.googleDocsFolderId = "set"
     /\ cfg.googleDocsCredentials \in {"", "{json}"}}

\* Environments of the Express backend, likewise
CampaignEnvs == {e \in Envs : e.WECHAT_APP_SECRET = "set"}

\* JavaScript truthiness of a string
Truthy(s) == s # ""

----------------------------------------------------------------------------
(* State *)

VARIABLES
  content,        \* content table: the rows, row id = position
  contentTable,   \* which columns the content table on disk has
  now,            \* CURRENT_TIMESTAMP
  userConfig,     \* user-config.json as loadUserConfig() returns it
  env,            \* process.env: the publishing credentials
  clock,          \* Date.now(), in milliseconds
  cache,          \* PublishingValidatorService.lastValidationResult / Time
  vreq,           \* GET /api/publishing/validate requests in flight
  configWrittenAt, \* Date.now() when user-config.json was last written
  listed,         \* the last list validatePublishingProviders() returned
  gate,           \* outcome of the last validateBeforeCampaign()
  topics,         \* topics table: the rows, row id = position
  run,            \* the campaign run in flight
  pub,            \* publish requests in flight
  approveResp,    \* response of the last approve request
  savers,         \* saveTrendsToDatabase calls in flight
  auto            \* response of the last POST /publish/auto

contentVars == <<content, contentTable, now>>
registryVars ==
  <<userConfig, env, clock, cache, vreq, configWrittenAt, listed, gate>>
campaignVars == <<topics, run>>
requestVars == <<pub, approveResp>>
backendVars == <<savers, auto>>

vars == <<contentVars, registryVars, campaignVars, requestVars, backendVars>>

\* createTables() issues CREATE TABLE IF NOT EXISTS: a fresh database gets
\* the columns listed there ("createTables": no published_url, trend_title or
\* content_text column, platform and body NOT NULL); a database file that
\* already holds a content table keeps that table ("preexisting": the columns
\* the handlers' statements name).
ContentTables == {"createTables", "preexisting"}

\* ids of the rows of the content table (AUTOINCREMENT, no DELETE statement)
ContentIds == 1..Len(content)

\* the row INSERTed by saveContentToDatabase
DraftRow(platform) ==
  [platform |-> platform, status |-> "draft",
   approved_at |-> NULL, published_at |-> NULL, published_url |-> "NULL"]

\* the row INSERTed by CampaignRunner.runCampaign: no platform column is given
PendingApprovalRow ==
  [platform |-> "none", status |-> "pending_approval",
   approved_at |-> NULL, published_at |-> NULL, published_url |-> "NULL"]

\* error is the message pushed to publishResults.errors
IdlePub ==
  [pc |-> "idle", id |-> 0, credOk |-> FALSE, dispatched |-> FALSE,
   url |-> "NULL", resp |-> "none", error |-> "none"]

NoApproveResp == [id |-> 0, code |-> 0, found |-> FALSE]

----------------------------------------------------------------------------
(* GoogleDocsService *)

\* initializeGoogleAPI: this.docs and this.drive are set when the credentials
\* are service-account JSON or an API key; empty or unrecognised credentials
\* return before the clients are created.
DocsClientsSet(cfg) == cfg.googleDocsCredentials \in {"{json}", "AIza"}

\* isConfigured(): !!(this.docs && this.drive && this.folderId).  The
\* constructor starts initializeGoogleAPI without awaiting it; initDone says
\* whether it has finished when isConfigured() is read.
IsConfigured(cfg, initDone) ==
  initDone /\ DocsClientsSet(cfg) /\ Truthy(cfg.googleDocsFolderId)

\* CreateDocumentOk where an API key creates documents like a service account
CreateDocumentOk_ApiKeyAllowed(cfg, initDone, apiOk) ==
  /\ IsConfigured(cfg, initDone)
  /\ apiOk

\* createDocument: TRUE iff it returns a document URL.  It throws when the
\* service is not configured, when the credentials are an API key, and when
\* the Google API call (apiOk) fails.
CreateDocumentOk(cfg, initDone, apiOk) ==
  /\ IsConfigured(cfg, initDone)
  /\ cfg.googleDocsCredentials # "AIza"
  /\ apiOk

----------------------------------------------------------------------------
(* POST /api/content/[id]/publish *)

\* the credential check the route makes on the configuration it loaded
PublishCredentialsOk(platform, cfg) ==
  CASE platform = "wechat" ->
         Truthy(cfg.wechatAppId) /\ Truthy(cfg.wechatAppSecret)
    [] platform = "xhs" -> Truthy(cfg.xhsCookie)
    [] platform = "googledocs" -> Truthy(cfg.googleDocsCredentials)
    [] OTHER -> FALSE

\* publishResults.platform after the try block
DispatchOk(platform, credOk, cfg, initDone, apiOk) ==
  CASE platform \in {"wechat", "xhs"} -> credOk
    [] platform = "googledocs" ->
         credOk /\ CreateDocumentOk(cfg, initDone, apiOk)
    [] OTHER -> FALSE

\* the Error the try block throws, "none" when it throws nothing
PublishError(platform, credOk, cfg, initDone, apiOk) ==
  CASE platform \notin Platforms -> "UnsupportedPlatform"
    [] platform \in Platforms /\ ~credOk -> "CredentialsNotConfigured"
    [] platform = "googledocs" /\ credOk /\ ~IsConfigured(cfg, initDone) ->
         "ServiceNotProperlyConfigured"
    [] platform = "googledocs" /\ credOk /\ IsConfigured(cfg, initDone)
         /\ ~CreateDocumentOk(cfg, initDone, apiOk) -> "CreateDocumentFailed"
    [] OTHER -> "none"

\* PublishRead without the status check of the route
PublishRead_NoStatusCheck(r, id) ==
  /\ pub[r].pc = "idle"
  /\ IF id \notin ContentIds
       THEN pub' = [pub EXCEPT ![r] = [IdlePub EXCEPT !.pc = "done",
                                        !.id = id, !.resp = "404"]]
       ELSE pub' = [pub EXCEPT ![r] = [IdlePub EXCEPT !.pc = "load",
                                        !.id = id]]
  /\ UNCHANGED <<contentVars, registryVars, campaignVars, approveResp>>
  /\ UNCHANGED backendVars

\* SELECT the row; 404 when there is none, 400 when it is not approved
PublishRead(r, id) ==
  /\ pub[r].pc = "idle"
  /\ IF id \notin ContentIds
       THEN pub' = [pub EXCEPT ![r] = [IdlePub EXCEPT !.pc = "done",
                                        !.id = id, !.resp = "404"]]
       ELSE IF content[id].status # "approved"
         THEN pub' = [pub EXCEPT ![r] = [IdlePub EXCEPT !.pc = "done",
                                          !.id = id, !.resp = "400"]]
         ELSE pub' = [pub EXCEPT ![r] = [IdlePub EXCEPT !.pc = "load",
                                          !.id = id]]
  /\ UNCHANGED <<contentVars, registryVars, campaignVars, approveResp>>
  /\ UNCHANGED backendVars

\* await loadUserConfig(); the platform is the one of the row read above (no
\* statement changes a row's platform or deletes a row)
PublishLoad(r) ==
  /\ pub[r].pc = "load"
  /\ pub' = [pub EXCEPT ![r].pc = "dispatch",
                        ![r].credOk =
                          PublishCredentialsOk(content[pub[r].id].platform,
                                               userConfig)]
  /\ UNCHANGED <<contentVars, registryVars, campaignVars, approveResp>>
  /\ UNCHANGED backendVars

\* the try block: dispatch to the row's platform
PublishDispatch(r) ==
  /\ pub[r].pc = "dispatch"
  /\ \E initDone \in BOOLEAN, apiOk \in BOOLEAN :
       LET platform == content[pub[r].id].platform
           ok == DispatchOk(platform, pub[r].credOk, userConfig, initDone, apiOk)
       IN  IF ok
             THEN pub' = [pub EXCEPT ![r].pc = "write",
                                     ![r].dispatched = TRUE,
                                     ![r].url = IF platform = "googledocs"
                                                  THEN "docUrl" ELSE "NULL"]
             ELSE pub' = [pub EXCEPT ![r].pc = "done",
                                     ![r].dispatched = TRUE,
                                     ![r].resp = "500_publish_failed",
                                     ![r].error =
                                       PublishError(platform, pub[r].credOk,
                                                    userConfig, initDone,
                                                    apiOk)]
  /\ UNCHANGED <<contentVars, registryVars, campaignVars, approveResp>>
  /\ UNCHANGED backendVars

\* UPDATE content SET status = 'published', published_at, published_url
PublishWrite(r) ==
  /\ pub[r].pc = "write"
  /\ IF contentTable = "preexisting"
       THEN /\ content' = [content EXCEPT ![pub[r].id] =
                 [@ EXCEPT !.status = "published", !.published_at = now,
                           !.published_url = pub[r].url]]
            /\ pub' = [pub EXCEPT ![r].pc = "done", ![r].resp = "200"]
       ELSE \* no such column: published_url; the outer catch answers 500
            /\ pub' = [pub EXCEPT ![r].pc = "done", ![r].resp = "500_error"]
            /\ UNCHANGED content
  /\ UNCHANGED <<contentTable, now, registryVars, campaignVars, approveResp>>
  /\ UNCHANGED backendVars

\* the response has been sent
PublishDone(r) ==
  /\ pub[r].pc = "done"
  /\ pub' = [pub EXCEPT ![r] = IdlePub]
  /\ UNCHANGED <<contentVars, registryVars, campaignVars, approveResp>>
  /\ UNCHANGED backendVars

----------------------------------------------------------------------------
(* POST /api/content/[id]/approve *)

\* UPDATE content SET status = 'approved', approved_at = CURRENT_TIMESTAMP
\* WHERE id = ?; then SELECT the row and answer success: true with it.
Approve(id) ==
  /\ content' = IF id \in ContentIds
                   THEN [content EXCEPT ![id].status = "approved",
                                        ![id].approved_at = now]
                   ELSE content
  /\ approveResp' = [id |-> id, code |-> 200, found |-> id \in ContentIds]
  /\ UNCHANGED <<contentTable, now, registryVars, campaignVars, pub>>
  /\ UNCHANGED backendVars

----------------------------------------------------------------------------
(* PATCH /:id/status -> updateContentStatus(contentId, status) *)

UpdateContentStatus(id, status) ==
  /\ content' = IF id \in ContentIds
                   THEN [content EXCEPT
                           ![id].status = status,
                           ![id].approved_at =
                             IF status = "approved" THEN now ELSE @,
                           ![id].published_at =
                             IF status = "published" THEN now ELSE @]
                   ELSE content
  /\ UNCHANGED <<contentTable, now, registryVars, campaignVars, requestVars>>
  /\ UNCHANGED backendVars

----------------------------------------------------------------------------
(* CURRENT_TIMESTAMP advances *)

Tick ==
  /\ now < MaxTime
  /\ now' = now + 1
  /\ UNCHANGED <<content, contentTable, registryVars, campaignVars, requestVars>>
  /\ UNCHANGED backendVars

----------------------------------------------------------------------------
(* PublishingValidatorService: configuration file, cached *)

\* private static validationCacheTime
validationCacheTime == 60000

ClockStep == validationCacheTime \div 2

NoResult == <<>>

EmptyCache == [result |-> NoResult, time |-> 0]

\* the providers array built from the loaded configuration
ComputeProviders(cfg) ==
  LET wechatConfigured ==
        Truthy(cfg.wechatAppId) /\ Truthy(cfg.wechatAppSecret)
      xhsConfigured == Truthy(cfg.xhsCookie)
      googleDocsConfigured ==
        Truthy(cfg.googleDocsCredentials) /\ Truthy(cfg.googleDocsFolderId)
  IN  << [name |-> "WeChat Official Account", platform |-> "wechat",
          configured |-> wechatConfigured,
          required_keys |-> <<"wechatAppId", "wechatAppSecret">>,
          missing_keys |-> IF wechatConfigured THEN <<>>
                           ELSE <<"wechatAppId", "wechatAppSecret">>],
         [name |-> "Xiao Hongshu (Semi-automated)", platform |-> "xhs",
          configured |-> xhsConfigured,
          required_keys |-> <<"xhsCookie">>,
          missing_keys |-> IF xhsConfigured THEN <<>> ELSE <<"xhsCookie">>],
         [name |-> "Google Docs", platform |-> "googledocs",
          configured |-> googleDocsConfigured,
          required_keys |-> <<"googleDocsCredentials", "googleDocsFolderId">>,
          missing_keys |-> IF googleDocsConfigured THEN <<>>
                           ELSE <<"googleDocsCredentials">>] >>

\* CacheHit with a result that stays valid through the whole interval
CacheHit_Inclusive(c, t) ==
  c.result # NoResult /\ (t - c.time) <= validationCacheTime

\* the cache check that opens validatePublishingProviders()
CacheHit(c, t) == c.result # NoResult /\ (t - c.time) < validationCacheTime

\* getAvailableProviders: allProviders.filter(provider => provider.configured)
GetAvailableProviders(providers) ==
  SelectSeq(providers, LAMBDA p : p.configured)

\* hasAnyProviderConfigured: availableProviders.length > 0
HasAnyProviderConfigured(providers) ==
  Len(GetAvailableProviders(providers)) > 0

ValidateReqs == 1..MaxValidateReqs

IdleVreq == [pc |-> "idle", t0 |-> 0]

\* GET /api/publishing/validate: getAvailableProviders() ->
\* validatePublishingProviders(), up to the cache check.  const now =
\* Date.now() is taken here, before the await.
ValidateRequest(q) ==
  /\ vreq[q].pc = "idle"
  /\ IF CacheHit(cache, clock)
       THEN /\ listed' = cache.result
            /\ vreq' = [vreq EXCEPT ![q] = [pc |-> "done", t0 |-> 0]]
       ELSE /\ vreq' = [vreq EXCEPT ![q] = [pc |-> "load", t0 |-> clock]]
            /\ UNCHANGED listed
  /\ UNCHANGED <<userConfig, env, clock, cache, configWrittenAt, gate,
                 contentVars, campaignVars, requestVars>>
  /\ UNCHANGED backendVars

\* ... after await loadUserConfig(): build the list and update the cache
ValidateRequestLoad(q) ==
  /\ vreq[q].pc = "load"
  /\ listed' = ComputeProviders(userConfig)
  /\ cache' = [result |-> ComputeProviders(userConfig), time |-> vreq[q].t0]
  /\ vreq' = [vreq EXCEPT ![q] = [pc |-> "done", t0 |-> 0]]
  /\ UNCHANGED <<userConfig, env, clock, configWrittenAt, gate,
                 contentVars, campaignVars, requestVars>>
  /\ UNCHANGED backendVars

\* the route has answered with the configured providers of the list
ValidateDone(q) ==
  /\ vreq[q].pc = "done"
  /\ vreq' = [vreq EXCEPT ![q] = IdleVreq]
  /\ UNCHANGED <<userConfig, env, clock, cache, configWrittenAt, listed, gate,
                 contentVars, campaignVars, requestVars>>
  /\ UNCHANGED backendVars

\* POST /api/config: every field of user-config.json is rewritten
SaveConfig(cfg) ==
  /\ userConfig' = cfg
  /\ configWrittenAt' = clock
  /\ UNCHANGED <<env, clock, cache, vreq, listed, gate,
                 contentVars, campaignVars, requestVars>>
  /\ UNCHANGED backendVars

ClockTick ==
  /\ clock < validationCacheTime + MaxClockTicks * ClockStep
  /\ clock' = clock + ClockStep
  /\ UNCHANGED <<userConfig, env, cache, vreq, configWrittenAt, listed, gate,
                 contentVars, campaignVars, requestVars>>
  /\ UNCHANGED backendVars

----------------------------------------------------------------------------
(* PublishingValidatorService: environment variables, no cache *)

\* required.filter(key => !process.env[key])
MissingEnv(e, required) == SelectSeq(required, LAMBDA k : ~Truthy(e[k]))

\* the providers array; gdConfigured is this.googleDocsService.isConfigured()
ComputeProvidersEnv(e, gdConfigured) ==
  LET wechatRequired == <<"WECHAT_APP_ID", "WECHAT_APP_SECRET">>
      xhsRequired == <<"XHS_COOKIE">>
      googleDocsRequired == <<"GOOGLE_DOCS_CREDENTIALS">>
  IN  << [name |-> "WeChat Official Account", platform |-> "wechat",
          configured |-> Len(MissingEnv(e, wechatRequired)) = 0,
          required_keys |-> wechatRequired,
          missing_keys |-> MissingEnv(e, wechatRequired)],
         [name |-> "Xiao Hongshu (Semi-automated)", platform |-> "xhs",
          configured |-> Len(MissingEnv(e, xhsRequired)) = 0,
          required_keys |-> xhsRequired,
          missing_keys |-> MissingEnv(e, xhsRequired)],
         [name |-> "Google Docs", platform |-> "googledocs",
          configured |-> Len(MissingEnv(e, googleDocsRequired)) = 0
                           /\ gdConfigured,
          required_keys |-> googleDocsRequired,
          missing_keys |-> MissingEnv(e, googleDocsRequired)] >>

NoGate == [called |-> FALSE, failed |-> FALSE, providers |-> NoResult]

\* validatePublishingProviders() as a request of its own (status report)
ValidatePublishingProvidersEnv ==
  /\ \E initDone \in BOOLEAN :
       listed' = ComputeProvidersEnv(env, IsConfigured(userConfig, initDone))
  /\ UNCHANGED <<userConfig, env, clock, cache, vreq, configWrittenAt, gate,
                 contentVars, campaignVars, requestVars>>
  /\ UNCHANGED backendVars

\* validateBeforeCampaign(): throws AppError(400) when no provider is
\* configured.  The list that decides is the one hasAnyProviderConfigured()
\* obtains; the calls that follow it only build the log text.
ValidateBeforeCampaignEnv ==
  /\ \E initDone \in BOOLEAN :
       LET providers ==
             ComputeProvidersEnv(env, IsConfigured(userConfig, initDone))
       IN  /\ listed' = providers
           /\ gate' = [called |-> TRUE,
                       failed |-> ~HasAnyProviderConfigured(providers),
                       providers |-> providers]
  /\ UNCHANGED <<userConfig, env, clock, cache, vreq, configWrittenAt,
                 contentVars, campaignVars, requestVars>>
  /\ UNCHANGED backendVars

----------------------------------------------------------------------------
(* POST /publish/auto: publish to every configured provider *)

NoAuto ==
  [called |-> FALSE, resp |-> "none", available |-> NoResult,
   results |-> <<>>]

RECURSIVE AutoResults_SkipFailed(_, _)
\* AutoResults where a provider whose publishing throws gets no entry
AutoResults_SkipFailed(available, docOk) ==
  IF available = <<>> THEN <<>>
  ELSE LET provider == Head(available)
       IN  (IF provider.platform = "googledocs" /\ ~docOk
              THEN <<>>
              ELSE <<[platform |-> provider.platform, success |-> TRUE]>>)
             \o AutoResults_SkipFailed(Tail(available), docOk)

RECURSIVE AutoResults(_, _)
\* the loop over availableProviders: wechat and xhs push their placeholder
\* result; googledocs pushes the document's result, or, when createDocument
\* throws (docOk false), the catch block pushes success: false
AutoResults(available, docOk) ==
  IF available = <<>> THEN <<>>
  ELSE LET provider == Head(available)
       IN  <<[platform |-> provider.platform,
              success |-> IF provider.platform = "googledocs"
                            THEN docOk ELSE TRUE]>>
             \o AutoResults(Tail(available), docOk)

\* validateBeforeCampaign() (400 when no provider is configured), then
\* getAvailableProviders() and the loop.  The validator and the route own one
\* GoogleDocsService each; an initialization that has finished stays so.
AutoPublish ==
  /\ \E initDone \in BOOLEAN, laterInitDone \in BOOLEAN,
        routeInitDone \in BOOLEAN, apiOk \in BOOLEAN :
       LET providers ==
             ComputeProvidersEnv(env, IsConfigured(userConfig, initDone))
           allProviders ==
             ComputeProvidersEnv(env, IsConfigured(userConfig,
                                                   initDone \/ laterInitDone))
           available == GetAvailableProviders(allProviders)
           docOk == CreateDocumentOk(userConfig, routeInitDone, apiOk)
       IN  /\ gate' = [called |-> TRUE,
                       failed |-> ~HasAnyProviderConfigured(providers),
                       providers |-> providers]
           /\ IF ~HasAnyProviderConfigured(providers)
                THEN /\ listed' = providers
                     /\ auto' = [NoAuto EXCEPT !.called = TRUE, !.resp = "400"]
                ELSE /\ listed' = allProviders
                     /\ auto' = [called |-> TRUE, resp |-> "200",
                                 available |-> available,
                                 results |-> AutoResults(available, docOk)]
  /\ UNCHANGED <<userConfig, env, clock, cache, vreq, configWrittenAt,
                 contentVars, campaignVars, requestVars, savers>>

----------------------------------------------------------------------------
(* TrendService: the topics table *)

\* titles the feeds deliver
Titles == {"AI", "ai ", "Web"}

\* String.prototype.toLowerCase / SQL LOWER()
Lower(t) ==
  CASE t = "AI" -> "ai"
    [] t = "Web" -> "web"
    [] OTHER -> t

\* String.prototype.trim
Trim(t) ==
  CASE t = "ai " -> "ai"
    [] t = " " -> ""
    [] OTHER -> t

RECURSIVE DedupFrom(_, _)
\* deduplicateTrends: keeps the first item of every normalized title
DedupFrom(trends, seen) ==
  IF trends = <<>> THEN <<>>
  ELSE LET normalizedTitle == Trim(Lower(Head(trends)))
       IN  IF normalizedTitle \in seen
             THEN DedupFrom(Tail(trends), seen)
             ELSE <<Head(trends)>>
                    \o DedupFrom(Tail(trends), seen \cup {normalizedTitle})

DeduplicateTrends(trends) == DedupFrom(trends, {})

\* lib/database hands out the sqlite3 Database with its callback methods
\* promisified as runAsync / getAsync / allAsync.  The plain db.get, db.all and
\* db.run called without a callback queue the statement and return the
\* Database object: `await` yields that object, never a row or an array.
DatabaseObject == "Database"

\* TrendService.saveTrendsToDatabase of the Next.js application:
\* existing = await db.get(...) is the Database object, always truthy, so the
\* INSERT is never reached
SaveTrendsToDatabase(rows, trends, t) == rows

\* TrendService.getPendingTrends of the Next.js application:
\* await db.all(...) is the Database object
GetPendingTrends(rows, limit) == DatabaseObject

RECURSIVE SaveTrends(_, _, _)
\* saveTrendsToDatabase with getAsync / runAsync (RSSTestService, the service
\* of the Express backend): SELECT id FROM topics WHERE LOWER(title) =
\* LOWER(?), INSERT ... 'pending' when no row is found
SaveTrends(rows, trends, t) ==
  IF trends = <<>> THEN rows
  ELSE LET title == Head(trends)
           existing == \E i \in 1..Len(rows) :
                         Lower(rows[i].title) = Lower(title)
       IN  SaveTrends(IF existing THEN rows
                      ELSE Append(rows, [title |-> title, status |-> "pending",
                                         discovered_at |-> t,
                                         processed_at |-> NULL]),
                      Tail(trends), t)

\* the batches a fetch may deliver
Batches == UNION {[1..n -> Titles] : n \in 0..MaxBatch}

\* rows of status pending
PendingIds(rows) == {i \in 1..Len(rows) : rows[i].status = "pending"}

\* getPendingTrends(limit)[0]: a pending row no other pending row is newer than
FirstPending(rows) ==
  {i \in PendingIds(rows) :
     \A j \in PendingIds(rows) : rows[j].discovered_at <= rows[i].discovered_at}

----------------------------------------------------------------------------
(* Campaign runs *)

\* the customTopic of a request body: absent or empty, blank, or a topic
CustomTopics == {"", " ", "AI Regulation"}

Modes == {"auto", "custom"}

\* the platforms every campaign asks the generator for
CampaignPlatforms == <<"wechat", "xhs">>

\* id of a custom topic: Date.now(), never a row of the topics table
CustomTopicId == -1

\* kind: "runner" is CampaignRunner.runCampaign, "route" is POST /:id/run.
\* providers is the list that decided hasProviders.
\* fetched, topicsWritten, generated and contentWritten record the work the
\* run has done; validated says its provider validation has passed.
IdleRun ==
  [pc |-> "idle", kind |-> "none", mode |-> "auto", customTopic |-> "",
   t0 |-> 0, providers |-> NoResult, hasProviders |-> FALSE,
   validated |-> FALSE,
   trendsFound |-> 0, topicId |-> 0, title |-> "", posts |-> {},
   fetched |-> FALSE, topicsWritten |-> FALSE, generated |-> FALSE,
   contentWritten |-> 0, result |-> "none"]

\* POST /api/campaigns/run -> new CampaignRunner().runCampaign(mode, customTopic)
RunCampaign(mode, customTopic) ==
  /\ run.pc = "idle"
  /\ run' = [IdleRun EXCEPT !.pc = "hasProviders", !.kind = "runner",
                            !.mode = mode, !.customTopic = customTopic]
  /\ UNCHANGED <<topics, contentVars, registryVars, requestVars>>
  /\ UNCHANGED backendVars

\* ValidatorReturned where a failed validation is logged and not thrown
ValidatorReturned_NoThrow(r, providers) ==
  IF r.pc \in {"hasProviders", "hasProvidersLoad"}
    THEN [r EXCEPT !.pc = "report", !.providers = providers,
                   !.hasProviders = HasAnyProviderConfigured(providers)]
    ELSE [r EXCEPT !.pc = "select", !.validated = r.hasProviders]

\* validateBeforeCampaign calls validatePublishingProviders() twice: through
\* hasAnyProviderConfigured(), which decides hasProviders, and then for the
\* error log (hasProviders false: AppError(400) is thrown) or the info log.
\* ValidatorReturned is the run after a call has returned `providers`.
ValidatorReturned(r, providers) ==
  IF r.pc \in {"hasProviders", "hasProvidersLoad"}
    THEN [r EXCEPT !.pc = "report", !.providers = providers,
                   !.hasProviders = HasAnyProviderConfigured(providers)]
    ELSE IF r.hasProviders
      THEN [r EXCEPT !.pc = "select", !.validated = TRUE]
      ELSE [r EXCEPT !.pc = "done", !.result = "NoProviderConfigured"]

\* validatePublishingProviders() up to the cache check
RunValidatorCall ==
  /\ run.pc \in {"hasProviders", "report"}
  /\ IF CacheHit(cache, clock)
       THEN run' = ValidatorReturned(run, cache.result)
       ELSE run' = [run EXCEPT !.t0 = clock,
                               !.pc = IF run.pc = "hasProviders"
                                        THEN "hasProvidersLoad"
                                        ELSE "reportLoad"]
  /\ UNCHANGED <<topics, contentVars, registryVars, requestVars>>
  /\ UNCHANGED backendVars

\* ... after await loadUserConfig(): build the list, update the cache
RunValidatorLoad ==
  /\ run.pc \in {"hasProvidersLoad", "reportLoad"}
  /\ cache' = [result |-> ComputeProviders(userConfig), time |-> run.t0]
  /\ run' = ValidatorReturned(run, ComputeProviders(userConfig))
  /\ UNCHANGED <<topics, contentVars, userConfig, env, clock, vreq,
                 configWrittenAt, listed, gate, requestVars>>
  /\ UNCHANGED backendVars

\* RunSelect where a custom topic is generated for after the discovery
RunSelect_DiscoverFirst ==
  /\ run.pc = "select"
  /\ \E hasFeeds \in BOOLEAN :
       run' = [run EXCEPT !.pc = IF hasFeeds THEN "aggregate" ELSE "pending"]
  /\ UNCHANGED <<topics, contentVars, registryVars, requestVars>>
  /\ UNCHANGED backendVars

\* mode === 'custom' && customTopic: the topic is wrapped; otherwise
\* getUserConfig() and, with feeds configured, aggregateTrends
RunSelect ==
  /\ run.pc = "select"
  /\ IF run.mode = "custom" /\ Truthy(run.customTopic)
       THEN run' = [run EXCEPT !.pc = "generate", !.trendsFound = 1,
                               !.topicId = CustomTopicId,
                               !.title = run.customTopic]
       ELSE \E hasFeeds \in BOOLEAN :
              run' = [run EXCEPT !.pc = IF hasFeeds THEN "aggregate"
                                        ELSE "pending"]
  /\ UNCHANGED <<topics, contentVars, registryVars, requestVars>>
  /\ UNCHANGED backendVars

\* aggregateTrends: fetch the feeds and the trends API (a failing source
\* delivers nothing), deduplicate, save.  trends.length is what the route
\* reports as trendsFound.
RunAggregate ==
  /\ run.pc = "aggregate"
  /\ \E batch \in Batches :
       LET uniqueTrends == DeduplicateTrends(batch)
           saved == IF run.kind = "runner"
                      THEN SaveTrendsToDatabase(topics, uniqueTrends, now)
                      ELSE SaveTrends(topics, uniqueTrends, now)
       IN  /\ Len(saved) <= MaxTopics
           /\ topics' = saved
           /\ run' = [run EXCEPT
                        !.pc = "pending", !.fetched = TRUE,
                        !.topicsWritten = @ \/ saved # topics,
                        !.trendsFound = IF run.kind = "route"
                                          THEN Len(uniqueTrends) ELSE @]
  /\ UNCHANGED <<contentVars, registryVars, requestVars>>
  /\ UNCHANGED backendVars

\* runCampaign: trends = getPendingTrends(5) is the Database object, whose
\* length is undefined: trends.length === 0 is false, selectedTrend =
\* trends[0] is undefined and 'Selected trend is invalid or missing title'
\* is thrown.
\* POST /:id/run: pendingTrends = getPendingTrends(1) of the backend service;
\* the first row is processed when there is one.
RunPending ==
  /\ run.pc = "pending"
  /\ IF run.kind = "runner"
       THEN /\ GetPendingTrends(topics, 5) = DatabaseObject
            /\ run' = [run EXCEPT !.pc = "done", !.result = "InvalidTrend"]
       ELSE IF PendingIds(topics) = {}
         THEN run' = [run EXCEPT !.pc = "done", !.result = "noPendingTrend"]
         ELSE \E i \in FirstPending(topics) :
                run' = [run EXCEPT !.pc = "generate", !.topicId = i,
                                   !.title = topics[i].title]
  /\ UNCHANGED <<topics, contentVars, registryVars, requestVars>>
  /\ UNCHANGED backendVars

RECURSIVE SaveDrafts(_, _, _)
\* the platform loop of generateContent: every platform whose post the
\* response holds is saved by saveContentToDatabase (options.topicId is set)
SaveDrafts(rows, platforms, posts) ==
  IF platforms = <<>> THEN rows
  ELSE SaveDrafts(IF Head(platforms) \in posts
                    THEN Append(rows, DraftRow(Head(platforms)))
                    ELSE rows,
                  Tail(platforms), posts)

\* RunGenerate where the first platform's draft is saved before the failure
RunGenerate_SaveThenFail ==
  /\ run.pc = "generate"
  /\ Len(content) + 1 < MaxContentId
  /\ content' = Append(content, DraftRow("wechat"))
  /\ run' = [run EXCEPT !.pc = "done", !.generated = TRUE,
                        !.contentWritten = @ + 1,
                        !.result = "GenerationFailed"]
  /\ UNCHANGED <<topics, contentTable, now, registryVars, requestVars>>
  /\ UNCHANGED backendVars

\* generateContent: research, the AI call and JSON.parse may throw (the run
\* ends with 'Failed to generate content'); otherwise the response holds a
\* post for some of the platforms asked for
RunGenerate ==
  /\ run.pc = "generate"
  /\ \/ /\ run' = [run EXCEPT !.pc = "done", !.generated = TRUE,
                              !.result = "GenerationFailed"]
        /\ UNCHANGED <<content, topics>>
     \/ \E posts \in SUBSET {"wechat", "xhs"} :
          LET saved == SaveDrafts(content, CampaignPlatforms, posts)
          IN  /\ Len(saved) < MaxContentId
              /\ content' = saved
              /\ run' = [run EXCEPT
                           !.pc = IF run.kind = "runner" THEN "persist"
                                  ELSE "markProcessed",
                           !.generated = TRUE, !.posts = posts,
                           !.contentWritten = @ + Cardinality(posts)]
              /\ UNCHANGED topics
  /\ UNCHANGED <<contentTable, now, registryVars, requestVars>>
  /\ UNCHANGED backendVars

\* runCampaign: db.run('INSERT INTO content (trend_title, content_text,
\* status, created_at) ...', [...]) is the callback form of sqlite3 called
\* without a callback: the await neither waits for the statement nor sees its
\* error.  A table with these columns gets the pending_approval row; on a
\* table without them no row is written.  The run returns its result either
\* way.
RunPersist ==
  /\ run.pc = "persist"
  /\ content' = IF contentTable = "preexisting"
                   THEN Append(content, PendingApprovalRow)
                   ELSE content
  /\ run' = [run EXCEPT !.pc = "done", !.result = "ok",
                        !.contentWritten =
                          IF contentTable = "preexisting" THEN @ + 1 ELSE @]
  /\ UNCHANGED <<topics, contentTable, now, registryVars, requestVars>>
  /\ UNCHANGED backendVars

\* the result or the error has been returned
RunDone ==
  /\ run.pc = "done"
  /\ run' = IdleRun
  /\ UNCHANGED <<topics, contentVars, registryVars, requestVars>>
  /\ UNCHANGED backendVars

----------------------------------------------------------------------------
(* POST /:id/run: the campaign workflow of the Express backend *)

RouteRun ==
  /\ run.pc = "idle"
  /\ run' = [IdleRun EXCEPT !.pc = "routeValidate", !.kind = "route"]
  /\ UNCHANGED <<topics, contentVars, registryVars, requestVars>>
  /\ UNCHANGED backendVars

\* publishingValidator.validateBeforeCampaign(); a failure is logged to
\* campaign_logs and thrown again
RouteValidate ==
  /\ run.pc = "routeValidate"
  /\ \E initDone \in BOOLEAN :
       LET providers ==
             ComputeProvidersEnv(env, IsConfigured(userConfig, initDone))
           hasProviders == HasAnyProviderConfigured(providers)
       IN  run' = IF hasProviders
                    THEN [run EXCEPT !.pc = "aggregate",
                                     !.providers = providers,
                                     !.hasProviders = TRUE,
                                     !.validated = TRUE]
                    ELSE [run EXCEPT !.pc = "done",
                                     !.providers = providers,
                                     !.result = "NoProviderConfigured"]
  /\ UNCHANGED <<topics, contentVars, registryVars, requestVars>>
  /\ UNCHANGED backendVars

\* markTrendProcessed(trend.id)
MarkTrendProcessed(rows, id, t) ==
  IF id \in 1..Len(rows)
    THEN [rows EXCEPT ![id].status = "processed", ![id].processed_at = t]
    ELSE rows

RouteMarkProcessed ==
  /\ run.pc = "markProcessed"
  /\ topics' = MarkTrendProcessed(topics, run.topicId, now)
  /\ run' = [run EXCEPT !.pc = "done", !.result = "ok"]
  /\ UNCHANGED <<contentVars, registryVars, requestVars>>
  /\ UNCHANGED backendVars

----------------------------------------------------------------------------
(* Concurrent aggregations and PATCH /:id/process *)

Savers == 1..MaxSavers

\* trends: the items saveTrendsToDatabase has still to go through
IdleSaver == [pc |-> "idle", trends |-> <<>>]

\* ids PATCH /:id/process may carry
TopicIds == 1..MaxTopics

\* the saver after the item at the head of its list is dealt with
NextTrend(saver) ==
  IF Tail(saver.trends) = <<>> THEN IdleSaver
  ELSE [pc |-> "check", trends |-> Tail(saver.trends)]

\* aggregateTrends has fetched and deduplicated a batch and enters the loop
\* of saveTrendsToDatabase
SaveStart(s, batch) ==
  /\ savers[s].pc = "idle"
  /\ DeduplicateTrends(batch) # <<>>
  /\ savers' = [savers EXCEPT
                  ![s] = [pc |-> "check", trends |-> DeduplicateTrends(batch)]]
  /\ UNCHANGED <<contentVars, registryVars, campaignVars, requestVars, auto>>

\* existing = await db.getAsync('SELECT id FROM topics WHERE LOWER(title) =
\* LOWER(?)', trend.title): an existing title is skipped
SaveCheck(s) ==
  /\ savers[s].pc = "check"
  /\ LET title == Head(savers[s].trends)
         existing == \E i \in 1..Len(topics) :
                       Lower(topics[i].title) = Lower(title)
     IN  savers' = [savers EXCEPT
                      ![s] = IF existing THEN NextTrend(savers[s])
                             ELSE [savers[s] EXCEPT !.pc = "insert"]]
  /\ UNCHANGED <<contentVars, registryVars, campaignVars, requestVars, auto>>

\* await db.runAsync(INSERT INTO topics ... 'pending')
SaveInsert(s) ==
  /\ savers[s].pc = "insert"
  /\ Len(topics) < MaxTopics
  /\ topics' = Append(topics, [title |-> Head(savers[s].trends),
                               status |-> "pending", discovered_at |-> now,
                               processed_at |-> NULL])
  /\ savers' = [savers EXCEPT ![s] = NextTrend(savers[s])]
  /\ UNCHANGED <<run, contentVars, registryVars, requestVars, auto>>

\* PATCH /:id/process: markTrendProcessed(id), then success: true
PatchProcess(id) ==
  /\ topics' = MarkTrendProcessed(topics, id, now)
  /\ UNCHANGED <<run, contentVars, registryVars, requestVars, backendVars>>

----------------------------------------------------------------------------
(* Initial states *)

EmptyEnv ==
  [WECHAT_APP_ID |-> "", WECHAT_APP_SECRET |-> "", XHS_COOKIE |-> "",
   GOOGLE_DOCS_CREDENTIALS |-> ""]

\* a process that has validated nothing yet
InitRegistryIdle ==
  /\ clock = validationCacheTime
  /\ cache = EmptyCache
  /\ vreq = [q \in ValidateReqs |-> IdleVreq]
  /\ configWrittenAt = 0
  /\ listed = NoResult
  /\ gate = NoGate

\* no campaign has run, no aggregation is in flight
InitCampaignIdle ==
  /\ topics = <<>>
  /\ run = IdleRun
  /\ savers = [s \in Savers |-> IdleSaver]
  /\ auto = NoAuto

----------------------------------------------------------------------------
(* The content store and the handlers that write it *)

\* The rows earlier campaign runs left in the table, each as its INSERT made
\* it: a draft of generateContent, or the pending_approval row of runCampaign
\* where the table has the columns of that statement.
InitRows(table) ==
  {DraftRow(p) : p \in Platforms}
    \cup (IF table = "preexisting" THEN {PendingApprovalRow} ELSE {})

InitContent ==
  /\ contentTable \in ContentTables
  /\ \E n \in 0..MaxInitRows : content \in [1..n -> InitRows(contentTable)]
  /\ now = 1
  /\ userConfig \in UserConfigs
  /\ env = EmptyEnv
  /\ InitRegistryIdle
  /\ InitCampaignIdle
  /\ pub = [r \in PublishReqs |-> IdlePub]
  /\ approveResp = NoApproveResp

NextContent ==
  \/ \E r \in PublishReqs, id \in RequestIds : PublishRead(r, id)
  \/ \E r \in PublishReqs : PublishLoad(r)
  \/ \E r \in PublishReqs : PublishDispatch(r)
  \/ \E r \in PublishReqs : PublishWrite(r)
  \/ \E r \in PublishReqs : PublishDone(r)
  \/ \E id \in RequestIds : Approve(id)
  \/ \E id \in RequestIds, s \in PatchStatuses : UpdateContentStatus(id, s)
  \/ Tick

SpecContent == InitContent /\ [][NextContent]_vars

----------------------------------------------------------------------------
(* The provider registry of the Next.js application *)

InitRegistry ==
  /\ userConfig \in UserConfigs
  /\ env = EmptyEnv
  /\ InitRegistryIdle
  /\ InitCampaignIdle
  /\ contentTable = "createTables" /\ content = <<>> /\ now = 1
  /\ pub = [r \in PublishReqs |-> IdlePub]
  /\ approveResp = NoApproveResp

NextRegistry ==
  \/ \E q \in ValidateReqs : ValidateRequest(q)
  \/ \E q \in ValidateReqs : ValidateRequestLoad(q)
  \/ \E q \in ValidateReqs : ValidateDone(q)
  \/ \E cfg \in CampaignConfigs : SaveConfig(cfg)
  \/ ClockTick

SpecRegistry == InitRegistry /\ [][NextRegistry]_vars

----------------------------------------------------------------------------
(* The provider registry that reads process.env *)

InitRegistryEnv ==
  /\ userConfig \in UserConfigs
  /\ env \in Envs
  /\ InitRegistryIdle
  /\ InitCampaignIdle
  /\ contentTable = "createTables" /\ content = <<>> /\ now = 1
  /\ pub = [r \in PublishReqs |-> IdlePub]
  /\ approveResp = NoApproveResp

NextRegistryEnv ==
  \/ ValidatePublishingProvidersEnv
  \/ ValidateBeforeCampaignEnv
  \/ AutoPublish

SpecRegistryEnv == InitRegistryEnv /\ [][NextRegistryEnv]_vars

----------------------------------------------------------------------------
(* Campaign runs *)

\* The Next.js application reads user-config.json, the Express backend
\* process.env (its Google Docs service is configured or not).
InitCampaign ==
  /\ \/ userConfig \in CampaignConfigs /\ env = EmptyEnv
     \/ userConfig \in {cfg \in CampaignConfigs :
                           /\ cfg.wechatAppId = "" /\ cfg.xhsCookie = ""
                           /\ cfg.googleDocsCredentials = "{json}"}
        /\ env \in CampaignEnvs
  /\ InitRegistryIdle
  /\ InitCampaignIdle
  /\ contentTable \in ContentTables /\ content = <<>> /\ now = 1
  /\ pub = [r \in PublishReqs |-> IdlePub]
  /\ approveResp = NoApproveResp

NextCampaign ==
  \/ \E mode \in Modes, customTopic \in CustomTopics :
       RunCampaign(mode, customTopic)
  \/ RunValidatorCall
  \/ RunValidatorLoad
  \/ RunSelect
  \/ RunAggregate
  \/ RunPending
  \/ RunGenerate
  \/ RunPersist
  \/ RunDone
  \/ RouteRun
  \/ RouteValidate
  \/ RouteMarkProcessed

SpecCampaign == InitCampaign /\ [][NextCampaign]_vars

----------------------------------------------------------------------------
(* Campaign runs whose external calls may stay unanswered *)

InitLive ==
  /\ userConfig \in {cfg \in CampaignConfigs :
                        /\ cfg.wechatAppId = "" /\ cfg.xhsCookie = ""
                        /\ cfg.googleDocsCredentials = "{json}"}
  /\ env \in CampaignEnvs
  /\ InitRegistryIdle
  /\ InitCampaignIdle
  /\ contentTable = "createTables" /\ content = <<>> /\ now = 1
  /\ pub = [r \in PublishReqs |-> IdlePub]
  /\ approveResp = NoApproveResp

\* the steps a run takes by itself: everything but the answer of a trend
\* source (RunAggregate) and of the generator (RunGenerate)
RunInternal ==
  \/ RunValidatorCall
  \/ RunValidatorLoad
  \/ RunSelect
  \/ RunPending
  \/ RunPersist
  \/ RunDone
  \/ RouteValidate
  \/ RouteMarkProcessed

\* The event loop runs every continuation that is ready; nothing in the
\* code makes an external answer arrive.
SpecLive == InitLive /\ [][NextCampaign]_vars /\ WF_vars(RunInternal)

----------------------------------------------------------------------------
(* The topics table under concurrent requests *)

InitTrends ==
  /\ userConfig = EmptyConfig
  /\ env = EmptyEnv
  /\ InitRegistryIdle
  /\ InitCampaignIdle
  /\ contentTable = "createTables" /\ content = <<>> /\ now = 1
  /\ pub = [r \in PublishReqs |-> IdlePub]
  /\ approveResp = NoApproveResp

NextTrends ==
  \/ \E s \in Savers, batch \in Batches : SaveStart(s, batch)
  \/ \E s \in Savers : SaveCheck(s)
  \/ \E s \in Savers : SaveInsert(s)
  \/ \E id \in TopicIds : PatchProcess(id)
  \/ Tick

SpecTrends == InitTrends /\ [][NextTrends]_vars

----------------------------------------------------------------------------
(* Overlapping publish requests *)

ConcurrentPublishReqs == 1..MaxConcurrentPublish

InitPublish ==
  /\ contentTable \in ContentTables
  /\ \E n \in 0..MaxInitRows : content \in [1..n -> InitRows(contentTable)]
  /\ now = 1
  /\ userConfig \in CampaignConfigs
  /\ env = EmptyEnv
  /\ InitRegistryIdle
  /\ InitCampaignIdle
  /\ pub = [r \in ConcurrentPublishReqs |-> IdlePub]
  /\ approveResp = NoApproveResp

NextPublish ==
  \/ \E r \in DOMAIN pub, id \in RequestIds : PublishRead(r, id)
  \/ \E r \in DOMAIN pub : PublishLoad(r)
  \/ \E r \in DOMAIN pub : PublishDispatch(r)
  \/ \E r \in DOMAIN pub : PublishWrite(r)
  \/ \E r \in DOMAIN pub : PublishDone(r)
  \/ \E id \in RequestIds : Approve(id)

SpecPublish == InitPublish /\ [][NextPublish]_vars

----------------------------------------------------------------------------
(* Content lifecycle properties *)

\* C1: a publish request that reads a row whose status is not approved
\* answers 400 and ends there: it has dispatched nothing and the step leaves
\* every row (status, published_at, published_url) as it was.
C1_PublishNotApprovedRejected ==
  [][\A r \in PublishReqs, id \in ContentIds :
       (/\ pub[r].pc = "idle" /\ pub'[r].pc # "idle" /\ pub'[r].id = id
        /\ content[id].status # "approved")
         => /\ pub'[r].pc = "done"
            /\ pub'[r].resp = "400"
            /\ ~pub'[r].dispatched
            /\ content' = content]_vars

\* a publish request on a row that is not approved has been answered
C1_Witness ==
  \E r \in PublishReqs :
    /\ pub[r].pc = "done" /\ pub[r].resp = "400"
    /\ pub[r].id \in ContentIds
    /\ content[pub[r].id].status \in Statuses \ {"approved"}

\* C2: a row becomes published only from approved, and becomes approved only
\* from its initial status (pending_approval, or draft as the generator
\* inserts it).
C2_PublishedOnlyViaApproved ==
  [][\A id \in ContentIds :
       /\ (content'[id].status = "published" /\ content[id].status # "published")
            => content[id].status = "approved"
       /\ (content'[id].status = "approved" /\ content[id].status # "approved")
            => content[id].status \in {"pending_approval", "draft"}]_vars

\* C3: rejected and published are terminal: no step changes the status of a
\* row that is rejected or published.
C3_TerminalStatuses ==
  [][\A id \in ContentIds :
       content[id].status \in {"rejected", "published"}
         => content'[id].status = content[id].status]_vars

\* C4: when the dispatch of a publish request for an approved row fails, the
\* row is approved with published_at and published_url unset.
C4_FailedDispatchLeavesApproved ==
  [][\A r \in PublishReqs :
       (/\ pub[r].pc = "dispatch"
        /\ pub'[r].resp = "500_publish_failed"
        /\ content[pub[r].id].status = "approved")
         => /\ content'[pub[r].id].status = "approved"
            /\ content'[pub[r].id].published_at = NULL
            /\ content'[pub[r].id].published_url = "NULL"]_vars

\* C5: approve on a row that is already approved, published or rejected
\* leaves its status and approved_at unchanged.
C5_ApproveIdempotent ==
  [][\A id \in ContentIds :
       (Approve(id) /\ content[id].status \in {"approved", "published", "rejected"})
         => /\ content'[id].status = content[id].status
            /\ content'[id].approved_at = content[id].approved_at]_vars

\* C6: for every row, approved_at is set iff the status is approved or
\* published, and published_at is set iff the status is published.
C6_TimestampsMatchStatus ==
  \A id \in ContentIds :
    /\ content[id].approved_at # NULL
         <=> content[id].status \in {"approved", "published"}
    /\ content[id].published_at # NULL <=> content[id].status = "published"

\* C7: approve never reports success for an id that has no row.
C7_ApproveMissingIsNotFound ==
  approveResp.code = 200 => approveResp.found

----------------------------------------------------------------------------
(* Campaign gate and provider registry properties *)

\* C8: provider validation comes before any work of a campaign run: a run
\* that has not passed validation fetches no trends, calls no generator and
\* writes neither the topics nor the content table, and a run that ends with
\* NoProviderConfigured has done none of these.
C8_ValidationBeforeWork ==
  [][/\ ~run.validated
          => /\ topics' = topics /\ content' = content
             /\ ~run'.fetched /\ ~run'.generated
     /\ run'.result = "NoProviderConfigured"
          => /\ ~run'.validated
             /\ ~run'.fetched /\ ~run'.topicsWritten /\ ~run'.generated
             /\ run'.contentWritten = 0]_vars

\* a campaign run has ended with NoProviderConfigured
C8_Witness ==
  /\ run.pc = "done" /\ run.kind \in {"runner", "route"}
  /\ run.result = "NoProviderConfigured"
  /\ ~HasAnyProviderConfigured(run.providers)

\* C9: validateBeforeCampaign fails iff every provider's missing_keys is
\* non-empty.
C9_GateFailsIffAllMissing ==
  gate.called =>
    (gate.failed <=> \A i \in 1..Len(gate.providers) :
                       gate.providers[i].missing_keys # <<>>)

\* C10: every record validatePublishingProviders returns has configured true
\* iff its missing_keys is empty.
C10_ConfiguredIffNoMissingKeys ==
  \A i \in 1..Len(listed) :
    listed[i].configured <=> listed[i].missing_keys = <<>>

\* C11: the validation cache is invalidated by time only.  A call made less
\* than validationCacheTime after the time of the cached computation returns
\* the cached list and recomputes nothing, whatever was written to the
\* configuration since; a call made validationCacheTime or more after the
\* last configuration write returns the list of the written configuration,
\* also while other validation calls are in flight.
C11_CacheInvalidatedByTimeOnly ==
  [][\A q \in ValidateReqs :
       /\ (/\ vreq[q].pc = "idle" /\ vreq'[q].pc # "idle"
           /\ cache.result # NoResult
           /\ clock - cache.time < validationCacheTime)
            => /\ vreq'[q].pc = "done"
               /\ listed' = cache.result
               /\ cache' = cache
       /\ (/\ vreq[q].pc # "done" /\ vreq'[q].pc = "done"
           /\ (IF vreq[q].pc = "idle" THEN clock ELSE vreq[q].t0)
                >= configWrittenAt + validationCacheTime)
            => listed' = ComputeProviders(userConfig)]_vars

\* a call made a cache interval after a configuration write has recomputed
\* the list, which is the one of the written configuration, while another
\* call is in flight
C11_Witness ==
  /\ configWrittenAt > 0
  /\ cache.time >= configWrittenAt + validationCacheTime
  /\ listed = cache.result
  /\ listed = ComputeProviders(userConfig)
  /\ \E q \in ValidateReqs : vreq[q].pc = "done"
  /\ \E q \in ValidateReqs : vreq[q].pc = "load"

----------------------------------------------------------------------------
(* Trend store and campaign run properties *)

\* C12: no two pending topics share a normalized (lowercase, trimmed) title,
\* whether their titles arrived in one batch or in different batches.
C12_NoDuplicatePendingTitles ==
  \A i, j \in PendingIds(topics) :
    i # j => Trim(Lower(topics[i].title)) # Trim(Lower(topics[j].title))

\* C13: when an auto run that selected a topic and invoked the generator has
\* ended, that topic is processed.
C13_SelectedTopicProcessed ==
  (/\ run.pc = "done" /\ run.generated
   /\ run.topicId \in 1..Len(topics))
    => topics[run.topicId].status = "processed"

\* C14: an auto run of the campaign runner that finds no pending topic
\* returns {trendsFound: 0, processed: null} as a normal result, without a
\* generator call or a content row.
C14_NoPendingTrendIsNormalResult ==
  (/\ run.pc = "done" /\ run.kind = "runner" /\ run.mode = "auto"
   /\ run.validated /\ PendingIds(topics) = {})
    => /\ run.result = "noPendingTrend"
       /\ run.trendsFound = 0
       /\ ~run.generated /\ run.contentWritten = 0

\* C15: a custom-topic run that returns its result reports the topic as
\* processed, trendsFound 1, and has created a pending_approval content row.
C15_CustomTopicCreatesPendingApproval ==
  (/\ run.pc = "done" /\ run.kind = "runner" /\ run.mode = "custom"
   /\ run.customTopic = "AI Regulation" /\ run.result = "ok")
    => /\ run.title = run.customTopic
       /\ run.trendsFound = 1
       /\ \E i \in ContentIds : content[i].status = "pending_approval"

\* C16: a custom-mode run whose topic is empty after trimming fails with
\* InvalidInput: it fetches no trends, calls no generator and writes no
\* content row.
C16_EmptyCustomTopicRejected ==
  (/\ run.kind = "runner" /\ run.mode = "custom"
   /\ Trim(run.customTopic) = "")
    => /\ ~run.fetched /\ ~run.generated /\ run.contentWritten = 0
       /\ run.pc = "done" => run.result \in {"InvalidInput",
                                             "NoProviderConfigured"}

C18_CreatedAsPendingApproval ==
  [][\A i \in (Len(content) + 1)..Len(content') :
       content'[i].status = "pending_approval"]_vars

\* C19: a run that ends with an exception of validation, topic selection or
\* generation has written no content row, and no step that ends a run so
\* writes one.
C19_NoPartialCommitOnException ==
  [][run'.result \in {"NoProviderConfigured", "InvalidTrend",
                      "GenerationFailed"}
       => /\ run'.contentWritten = 0
          /\ content' = content]_vars

\* a run has ended with the generator's exception
C19_Witness ==
  /\ run.pc = "done" /\ run.generated
  /\ run.result = "GenerationFailed"
  /\ run.contentWritten = 0

\* C20: a row becomes published only in the UPDATE of a publish request for
\* it whose dispatch has reported success.
C20_PublishedOnlyAfterDispatch ==
  [][\A id \in ContentIds :
       (content'[id].status = "published" /\ content[id].status # "published")
         => \E r \in PublishReqs :
              /\ pub[r].pc = "write" /\ pub[r].id = id
              /\ pub[r].dispatched]_vars

----------------------------------------------------------------------------
(* Trend store under repeated and concurrent requests, external calls,
   publishing *)

\* C21: marking a topic that is already processed leaves its status and
\* processed_at unchanged.
C21_MarkProcessedIdempotent ==
  [][\A id \in 1..Len(topics) :
       (PatchProcess(id) /\ topics[id].status = "processed")
         => /\ topics'[id].status = topics[id].status
            /\ topics'[id].processed_at = topics[id].processed_at]_vars

\* C22: every campaign run that has started eventually completes, with a
\* result or an error, also when an external call is never answered.
C22_EveryRunCompletes ==
  (run.pc # "idle") ~> (run.pc = "done")

C24_ApiKeyNeverCreatesDocument ==
  [][\A r \in DOMAIN pub :
       (/\ pub[r].pc = "dispatch" /\ pub'[r].pc # "dispatch"
        /\ content[pub[r].id].platform = "googledocs"
        /\ content[pub[r].id].status = "approved"
        /\ userConfig.googleDocsCredentials = "AIza")
         => /\ pub'[r].pc = "done"
            /\ pub'[r].resp = "500_publish_failed"
            /\ pub'[r].url = "NULL"
            /\ content' = content]_vars

\* a publish of an approved googledocs row has failed under an API key
C24_Witness ==
  \E r \in DOMAIN pub :
    /\ pub[r].pc = "done" /\ pub[r].resp = "500_publish_failed"
    /\ pub[r].id \in ContentIds
    /\ content[pub[r].id].platform = "googledocs"
    /\ content[pub[r].id].status = "approved"
    /\ userConfig.googleDocsCredentials = "AIza"
    /\ userConfig.googleDocsFolderId = "set"
    /\ pub[r].error = "CreateDocumentFailed"

\* C25: the results of an auto-publish hold exactly one entry per available
\* provider, in the providers' order, every available provider is a
\* configured one, and only googledocs can have success false.
C25_OneResultPerAvailableProvider ==
  (auto.called /\ auto.resp = "200")
    => /\ Len(auto.results) = Len(auto.available)
       /\ \A i \in 1..Len(auto.available) :
            /\ auto.available[i].configured
            /\ auto.results[i].platform = auto.available[i].platform
            /\ ~auto.results[i].success
                 => auto.results[i].platform = "googledocs"
       /\ \A i, j \in 1..Len(auto.results) :
            i # j => auto.results[i].platform # auto.results[j].platform

\* an auto-publish to three providers where createDocument threw
C25_Witness ==
  /\ auto.called /\ auto.resp = "200"
  /\ Len(auto.results) = 3
  /\ auto.results[1].success /\ auto.results[2].success
  /\ auto.results[3].platform = "googledocs" /\ ~auto.results[3].success

\* C26: no two publish requests in flight have both dispatched successfully
\* for the same row.
C26_AtMostOneDispatch ==
  \A r1, r2 \in DOMAIN pub :
    (/\ r1 # r2
     /\ pub[r1].pc = "write" /\ pub[r2].pc \in {"write", "done"}
     /\ pub[r2].resp \in {"none", "200", "500_error"})
      => pub[r1].id # pub[r2].id

C28_RegistryAndDispatcherAgree ==
  \A r \in DOMAIN pub :
    (pub[r].pc = "done" /\ pub[r].error = "ServiceNotProperlyConfigured")
      => ~ComputeProviders(userConfig)[3].configured

\* C29: in the list a validation computes, every provider's missing_keys
\* holds exactly its required keys whose configuration value is empty.
C29_MissingKeysExact ==
  [][\A q \in ValidateReqs :
       (vreq[q].pc = "load" /\ vreq'[q].pc = "done")
         => \A i \in 1..Len(listed') :
              {listed'[i].missing_keys[k] :
                 k \in 1..Len(listed'[i].missing_keys)}
                = {key \in {listed'[i].required_keys[k] :
                              k \in 1..Len(listed'[i].required_keys)} :
                     ~Truthy(userConfig[key])}]_vars

\* C30: a run of the campaign runner that returns contentGenerated: true
\* got at least one post from the generator and created at least one content
\* row.
C30_ContentGeneratedMeansContent ==
  (run.pc = "done" /\ run.kind = "runner" /\ run.result = "ok")
    => /\ run.posts # {}
       /\ run.contentWritten >= 1

----------------------------------------------------------------------------
\* every handler of the model
Next ==
  \/ NextContent
  \/ NextRegistry
  \/ NextRegistryEnv
  \/ NextCampaign
  \/ NextTrends
  \/ NextPublish

Init == InitCampaign

Spec == Init /\ [][Next]_vars

====
